---- MODULE Spec2Model ----
(***************************************************************************)
(* Browser-resident controllers of the banking document classification     *)
(* front end: the main page (two builds of app.js) and the document detail *)
(* page.  Every handler is one atomic step of the single-threaded event    *)
(* loop; an async handler is split at its await of the network.            *)
(***************************************************************************)
EXTENDS Integers, Sequences, FiniteSets, TLC

VARIABLES
    build,              \* which app.js the main page runs
    currentFile,        \* let currentFile
    uploadBtnDisabled,  \* uploadBtn.disabled
    uploadReqs,         \* /process-document requests awaiting their response
    resetTimers,        \* pending setTimeout(resetUploadArea, 1000) callbacks
    recentDocuments,    \* let recentDocuments
    localStorage,       \* localStorage item 'recentDocuments'
    recorded,           \* entries passed to saveToRecent in this page session
    loadedAtStartup,    \* value of recentDocuments when startup finished
    clock,              \* wall clock read by new Date()
    uncaught,           \* an exception escaped an event handler
    toasts,             \* showToast calls made by the most recent step
    lastOp,             \* the most recent handler step and its input
    chatHistory,        \* mainChatHistory / chatHistory, per scope
    chatView,           \* children of chatMessagesMain / chatMessages
    chatBtnDisabled,    \* chatBtnMain.disabled / sendBtn.disabled
    chatInputDisabled,  \* chatInputMain.disabled / chatInput.disabled
    chatReqs,           \* /chat requests awaiting their response, per scope
    documentId,         \* let documentId (detail page)
    resultsView,        \* resultsSection and the elements displayResults fills
    catReqs,            \* /documents-by-category requests awaiting their response
    categoriesView,     \* content of categoriesView
    searchReqs,         \* /search-documents requests awaiting their response
    searchView,         \* content of searchResults
    tabRecent,          \* let recentDocuments of a second tab on the same origin
    docReqs,            \* /document/{id} requests awaiting their response
    documentInfo        \* content of documentInfo (detail page)

vars == <<build, currentFile, uploadBtnDisabled, uploadReqs, resetTimers,
          recentDocuments, localStorage, recorded, loadedAtStartup,
          clock, uncaught, toasts, lastOp, chatHistory, chatView,
          chatBtnDisabled, chatInputDisabled, chatReqs, documentId,
          resultsView, catReqs, categoriesView, searchReqs, searchView,
          tabRecent, docReqs, documentInfo>>

uploadVars == <<currentFile, uploadBtnDisabled, uploadReqs, resetTimers>>
recentVars == <<recentDocuments, localStorage, recorded, loadedAtStartup,
                clock, uncaught, tabRecent>>
chatVars == <<chatHistory, chatView, chatBtnDisabled, chatInputDisabled,
              chatReqs, docReqs, documentInfo>>
catVars == <<catReqs, categoriesView>>
searchVars == <<searchReqs, searchView>>

-----------------------------------------------------------------------------
(* Bounds of the model *)

MaxRecords == 12      \* successful uploads in one behaviour of the store
MaxUploads == 2       \* successful uploads in one behaviour of the controller
MaxInFlight == 2      \* upload requests outstanding together
MaxTimers == 2        \* reset timers pending together
MaxTurns == 3         \* chat sends accepted in one behaviour, both scopes together
MaxCatReqs == 2       \* category loads outstanding together
MaxSearches == 2      \* search requests outstanding together
MaxTabWrites == 3     \* records written by two tabs in one behaviour

-----------------------------------------------------------------------------
(* JavaScript values *)

Null == [null |-> TRUE]
Undefined == [undefined |-> TRUE]
Str(chars) == [str |-> chars]
IsStr(v) == "str" \in DOMAIN v
Num(n) == [num |-> n]
IsNum(v) == "num" \in DOMAIN v

Min(a, b) == IF a < b THEN a ELSE b

Last(s) == s[Len(s)]

RECURSIVE Reverse(_)
Reverse(s) == IF s = <<>> THEN <<>> ELSE Append(Reverse(Tail(s)), Head(s))

Builds == {"part_000", "app_js"}

-----------------------------------------------------------------------------
(* Input validation: handleFile *)

validTypes == {"application/pdf", "image/jpeg", "image/jpg", "image/png",
               "text/plain"}

Extensions == {<<"p","d","f">>, <<"j","p","g">>, <<"j","p","e","g">>,
               <<"p","n","g">>, <<"t","x","t">>}

SizeLimit == 10 * 1024 * 1024

UpperToLower == [c \in {"P","D","F","N","G","T","X","J","E"} |->
                   CASE c = "P" -> "p" [] c = "D" -> "d" [] c = "F" -> "f"
                     [] c = "N" -> "n" [] c = "G" -> "g" [] c = "T" -> "t"
                     [] c = "X" -> "x" [] c = "J" -> "j" [] c = "E" -> "e"]

ToLowerCase(s) ==
    [i \in 1..Len(s) |-> IF s[i] \in DOMAIN UpperToLower
                           THEN UpperToLower[s[i]] ELSE s[i]]

\* file.name.match(/\.(pdf|jpg|jpeg|png|txt)$/i)
NameMatches(name) ==
    \E i \in 1..Len(name) :
        /\ name[i] = "."
        /\ ToLowerCase(SubSeq(name, i + 1, Len(name))) \in Extensions

\* !validTypes.includes(file.type) && !file.name.match(...)
TypeRejected(file) ==
    ~(file.type \in validTypes) /\ ~NameMatches(file.name)

TooLargeInclusive(file) == file.size >= SizeLimit

\* file.size > 10 * 1024 * 1024
TooLarge(file) == file.size > SizeLimit

Names == { <<"a",".","p","d","f">>,
           <<"b",".","P","N","G">>,
           <<"s","c","a","n">>,
           <<"c",".","J","p","e","g">>,
           <<"d",".","e","x","e">>,
           <<"e",".","p","d","f",".","e","x","e">>,
           <<"t","x","t">>,
           <<"n",".","t","x","t">> }

Types == {"application/pdf", "image/jpg", "", "application/octet-stream"}

Sizes == {1024, SizeLimit, SizeLimit + 1, 15 * 1024 * 1024}

File(n, t, s) == [name |-> n, type |-> t, size |-> s]

AllFiles == { File(n, t, s) : n \in Names, t \in Types, s \in Sizes }

\* the files the user picks in the upload scenarios
Files == { File(<<"a",".","p","d","f">>, "application/pdf", 1024),
           File(<<"b",".","P","N","G">>, "", SizeLimit),
           File(<<"n",".","t","x","t">>, "text/plain", 15 * 1024 * 1024),
           File(<<"d",".","e","x","e">>, "application/octet-stream", 1024) }

Toast(message, type) == [message |-> message, type |-> type]

Op(name, arg) == [op |-> name, arg |-> arg]

\* handleFile that clears the upload area when it rejects a file
HandleFileClearsOnReject(file) ==
    /\ lastOp' = Op("handleFile", file)
    /\ IF TypeRejected(file)
         THEN /\ toasts' = <<Toast("Invalid file type", "error")>>
              /\ currentFile' = Null
              /\ uploadBtnDisabled' = TRUE
         ELSE IF TooLarge(file)
         THEN /\ toasts' = <<Toast("File size too large", "error")>>
              /\ currentFile' = Null
              /\ uploadBtnDisabled' = TRUE
         ELSE /\ currentFile' = file
              /\ uploadBtnDisabled' = FALSE
              /\ toasts' = <<>>
    /\ UNCHANGED <<build, uploadReqs, resetTimers, recentVars, chatVars,
                   documentId, resultsView, catVars, searchVars>>

\* handleFile that keeps the file already staged
HandleFileKeepsFirst(file) ==
    /\ lastOp' = Op("handleFile", file)
    /\ IF TypeRejected(file)
         THEN /\ toasts' = <<Toast("Invalid file type", "error")>>
              /\ UNCHANGED <<currentFile, uploadBtnDisabled>>
         ELSE IF TooLarge(file)
         THEN /\ toasts' = <<Toast("File size too large", "error")>>
              /\ UNCHANGED <<currentFile, uploadBtnDisabled>>
         ELSE /\ currentFile' = IF currentFile = Null THEN file ELSE currentFile
              /\ uploadBtnDisabled' = FALSE
              /\ toasts' = <<>>
    /\ UNCHANGED <<build, uploadReqs, resetTimers, recentVars, chatVars,
                   documentId, resultsView, catVars, searchVars>>

\* handleFile without the return after a rejection toast
HandleFileNoReturn(file) ==
    /\ lastOp' = Op("handleFile", file)
    /\ toasts' = IF TypeRejected(file) THEN <<Toast("Invalid file type", "error")>>
                 ELSE IF TooLarge(file) THEN <<Toast("File size too large", "error")>>
                 ELSE <<>>
    /\ currentFile' = file
    /\ uploadBtnDisabled' = FALSE
    /\ UNCHANGED <<build, uploadReqs, resetTimers, recentVars, chatVars,
                   documentId, resultsView, catVars, searchVars>>

HandleFile(file) ==
    /\ lastOp' = Op("handleFile", file)
    /\ IF TypeRejected(file)
         THEN /\ toasts' = <<Toast("Invalid file type", "error")>>
              /\ UNCHANGED <<currentFile, uploadBtnDisabled>>
         ELSE IF TooLarge(file)
         THEN /\ toasts' = <<Toast("File size too large", "error")>>
              /\ UNCHANGED <<currentFile, uploadBtnDisabled>>
         ELSE /\ currentFile' = file
              /\ uploadBtnDisabled' = FALSE
              /\ toasts' = <<>>
    /\ UNCHANGED <<build, uploadReqs, resetTimers, recentVars, chatVars,
                   documentId, resultsView, catVars, searchVars>>

-----------------------------------------------------------------------------
(* Recent-document store: saveToRecent, loadRecentDocuments *)

MaxRecent == 10

\* a JavaScript value held by recentDocuments: an array, or anything else
\* JSON.parse can return (an object, a number, null)
JsArray(items) == [array |-> items]
NotArray == [notArray |-> TRUE]
IsArray(v) == "array" \in DOMAIN v

DocIds == {"DOC-1"}

\* a /process-document payload with every field the page reads
Results == { [document_id |-> d, category |-> "complaints", urgency |-> "high"]
             : d \in DocIds }

Entry(result, now) ==
    [id |-> result.document_id, category |-> result.category,
     urgency |-> result.urgency, timestamp |-> now]

\* JSON.stringify of one entry: its key/value pairs in insertion order
StringifyEntry(e) ==
    << <<"id", e.id>>, <<"category", e.category>>, <<"urgency", e.urgency>>,
       <<"timestamp", e.timestamp>> >>

\* JSON.stringify(recentDocuments): the text of a JSON array
JSONStringify(items) ==
    [json |-> "array", objs |-> [i \in 1..Len(items) |-> StringifyEntry(items[i])]]

\* texts a foreign or damaged writer may have left in the item
InvalidText == [json |-> "invalid", objs |-> <<>>]   \* not JSON at all
ObjectText == [json |-> "object", objs |-> <<>>]     \* JSON, but no array
EmptyText == [json |-> "empty", objs |-> <<>>]       \* the empty string

Lookup(pairs, key) ==
    LET i == CHOOSE j \in 1..Len(pairs) : pairs[j][1] = key IN pairs[i][2]

ParseEntry(pairs) ==
    [id |-> Lookup(pairs, "id"), category |-> Lookup(pairs, "category"),
     urgency |-> Lookup(pairs, "urgency"), timestamp |-> Lookup(pairs, "timestamp")]

\* JSON.parse(stored) for a text that parses
JSONParse(text) ==
    IF text.json = "array"
      THEN JsArray([i \in 1..Len(text.objs) |-> ParseEntry(text.objs[i])])
      ELSE NotArray

Unshift(items, e) == <<e>> \o items

KeepAll(items) == items

\* if (recentDocuments.length > 10) recentDocuments = recentDocuments.slice(0, 10)
KeepLast(items) ==
    IF Len(items) > MaxRecent THEN SubSeq(items, 1, MaxRecent) ELSE items

\* the array saveToRecent leaves in recentDocuments
SaveToRecent(items, result, now) == KeepLast(Unshift(items, Entry(result, now)))

\* loadRecentDocuments: the value of recentDocuments after it, and whether an
\* exception left it (JSON.parse, or displayRecentDocuments on a non-array)
LoadRecentDocuments(stored) ==
    IF stored = Null \/ stored.json = "empty"
      THEN [docs |-> JsArray(<<>>), threw |-> FALSE]
    ELSE IF stored.json = "invalid"
      THEN [docs |-> JsArray(<<>>), threw |-> TRUE]
    ELSE [docs |-> JSONParse(stored), threw |-> ~IsArray(JSONParse(stored))]

-----------------------------------------------------------------------------
(* Result renderer: displayResults *)

LowerCase == <<"a","b","c","d","e","f","g","h","i","j","k","l","m",
               "n","o","p","q","r","s","t","u","v","w","x","y","z">>
UpperCase == <<"A","B","C","D","E","F","G","H","I","J","K","L","M",
               "N","O","P","Q","R","S","T","U","V","W","X","Y","Z">>

ToUpper(c) ==
    IF \E i \in 1..Len(LowerCase) : LowerCase[i] = c
      THEN UpperCase[CHOOSE i \in 1..Len(LowerCase) : LowerCase[i] = c]
      ELSE c

\* String.prototype.toUpperCase
toUpperCase(s) == [i \in 1..Len(s) |-> ToUpper(s[i])]

\* category.replace(/_/g, ' ').split(' ').map(word => word.charAt(0)
\* .toUpperCase() + word.slice(1)).join(' ')
formatCategory(s) ==
    LET spaced == [i \in 1..Len(s) |-> IF s[i] = "_" THEN " " ELSE s[i]]
    IN  [i \in 1..Len(s) |-> IF i = 1 \/ spaced[i - 1] = " "
                               THEN ToUpper(spaced[i]) ELSE spaced[i]]

formatLabel(s) == formatCategory(s)

\* the characters of the strings the payloads carry
Chars == [ complaints |-> <<"c","o","m","p","l","a","i","n","t","s">>,
           kyc_updates |-> <<"k","y","c","_","u","p","d","a","t","e","s">>,
           high |-> <<"h","i","g","h">>,
           low |-> <<"l","o","w">>,
           customer_id |-> <<"c","u","s","t","o","m","e","r","_","i","d">>,
           iban |-> <<"i","b","a","n">>,
           name |-> <<"n","a","m","e">>,
           amount |-> <<"a","m","o","u","n","t">> ]

\* JavaScript truthiness of a metadata value
Truthy(v) ==
    IF IsStr(v) THEN v.str # <<>>
    ELSE IF IsNum(v) THEN v.num # 0
    ELSE FALSE

Digits == <<"0","1","2","3","4","5","6","7","8","9">>

\* `${value}` for a string or a one-digit number
StringOf(v) == IF IsStr(v) THEN v.str ELSE <<Digits[v.num + 1]>>

Has(result, field) == field \in DOMAIN result

\* the results section before the first displayResults: hidden and empty
NoResults ==
    [hidden |-> TRUE, docId |-> "", category |-> <<>>, urgency |-> <<>>,
     customerInfo |-> <<>>]

ValueRow(key, value) ==
    [label |-> formatLabel(Chars[key]), value |-> StringOf(value), missing |-> FALSE]

MissingRow(key) ==
    [label |-> formatLabel(Chars[key]), value |-> <<"N","o","t"," ","f","o","u","n","d">>,
     missing |-> TRUE]

\* Object.entries(result.metadata).forEach(...): the rows appended to
\* customerInfo; the older build has no else branch
RECURSIVE MetadataRows(_, _)
MetadataRows(b, entries) ==
    IF entries = <<>> THEN <<>>
    ELSE LET key == Head(entries)[1]
             value == Head(entries)[2]
             rest == MetadataRows(b, Tail(entries))
         IN  IF Truthy(value) THEN <<ValueRow(key, value)>> \o rest
             ELSE IF b = "part_000" THEN <<MissingRow(key)>> \o rest
             ELSE rest

\* result.alerts.forEach(alert => showToast(alert, 'warning')), newer build only
AlertToasts(b, result) ==
    IF b = "part_000" /\ Has(result, "alerts")
      THEN [i \in 1..Len(result.alerts) |-> Toast(result.alerts[i], "warning")]
      ELSE <<>>

\* displayResults(result): the results section it leaves, the toasts it shows,
\* and whether it threw (formatCategory or toUpperCase of undefined)
DisplayResults(b, view, result) ==
    LET shown == [view EXCEPT !.hidden = FALSE, !.docId = result.document_id]
    IN  IF ~Has(result, "category")
          THEN [view |-> shown, toasts |-> <<>>, threw |-> TRUE]
        ELSE IF ~Has(result, "urgency")
          THEN [view |-> [shown EXCEPT !.category = formatCategory(Chars[result.category])],
                toasts |-> <<>>, threw |-> TRUE]
        ELSE [view |-> [shown EXCEPT
                          !.category = formatCategory(Chars[result.category]),
                          !.urgency = toUpperCase(Chars[result.urgency]),
                          !.customerInfo =
                              IF Has(result, "metadata")
                                THEN MetadataRows(b, result.metadata) ELSE <<>>],
              toasts |-> AlertToasts(b, result), threw |-> FALSE]

-----------------------------------------------------------------------------
(* Category grouping view: loadDocumentsByCategory *)

\* a request remembers whether it is the most recently issued one
IssueLoad(reqs) == [i \in 1..Len(reqs) |-> FALSE] \o <<TRUE>>

\* categoriesView before any response: the markup of the page
NoCategories == [content |-> "initial", latest |-> FALSE]

\* the newer build calls loadDocumentsByCategory; the older build has none
LoadDocumentsByCategory(b, reqs) == IF b = "part_000" THEN IssueLoad(reqs) ELSE reqs

\* the view is no longer that of the most recent load once another is issued
Superseded(b, view) == IF b = "part_000" THEN [view EXCEPT !.latest = FALSE] ELSE view

CategoryOutcomes == {"ok",        \* 2xx, categories with documents
                     "ok_empty",  \* 2xx, categories absent or empty
                     "failed"}    \* non-2xx, transport fault or bad JSON

CategoryContent(outcome) ==
    CASE outcome = "ok" -> "groups"
      [] outcome = "ok_empty" -> "No documents processed yet"
      [] outcome = "failed" -> "Failed to load documents"

\* the searchResults area before the first search
NoSearch == [content |-> "initial", hits |-> <<>>, latest |-> FALSE]

-----------------------------------------------------------------------------
(* Page load and reload *)

\* the DOMContentLoaded handler of the main page
Startup(b, stored) ==
    IF b = "app_js" THEN LoadRecentDocuments(stored)
    ELSE [docs |-> JsArray(<<>>), threw |-> FALSE]

\* what the durable item may hold when the page is first opened
InitialStorage == {Null, InvalidText, ObjectText, EmptyText}

\* the state of the main page when its DOMContentLoaded handler has returned;
\* the upload button starts disabled, the state resetUploadArea restores
PageLoaded(b, stored) ==
    /\ build = b
    /\ localStorage = stored
    /\ currentFile = Null
    /\ uploadBtnDisabled = TRUE
    /\ uploadReqs = <<>>
    /\ resetTimers = 0
    /\ recentDocuments = Startup(b, stored).docs
    /\ loadedAtStartup = Startup(b, stored).docs
    /\ uncaught = Startup(b, stored).threw
    /\ recorded = <<>>
    /\ toasts = <<>>
    /\ lastOp = Op("DOMContentLoaded", Null)
    /\ resultsView = NoResults
    /\ catReqs = LoadDocumentsByCategory(b, <<>>)
    /\ categoriesView = NoCategories
    /\ searchReqs = <<>>
    /\ searchView = NoSearch
    /\ tabRecent = Null

\* leaving and reopening the page: requests and timers of the old document die
Reload ==
    /\ build' = build
    /\ localStorage' = localStorage
    /\ clock' = clock
    /\ currentFile' = Null
    /\ uploadBtnDisabled' = TRUE
    /\ uploadReqs' = <<>>
    /\ resetTimers' = 0
    /\ recentDocuments' = Startup(build, localStorage).docs
    /\ loadedAtStartup' = Startup(build, localStorage).docs
    /\ uncaught' = Startup(build, localStorage).threw
    /\ recorded' = <<>>
    /\ toasts' = <<>>
    /\ lastOp' = Op("DOMContentLoaded", Null)
    /\ chatHistory' = [chatHistory EXCEPT !["main"] = <<>>]
    /\ chatView' = [chatView EXCEPT !["main"] = <<>>]
    /\ chatBtnDisabled' = [chatBtnDisabled EXCEPT !["main"] = FALSE]
    /\ chatInputDisabled' = [chatInputDisabled EXCEPT !["main"] = FALSE]
    /\ chatReqs' = [chatReqs EXCEPT !["main"] = <<>>]
    /\ resultsView' = NoResults
    /\ catReqs' = LoadDocumentsByCategory(build, <<>>)
    /\ categoriesView' = NoCategories
    /\ searchReqs' = <<>>
    /\ searchView' = NoSearch
    /\ UNCHANGED <<documentId, tabRecent, docReqs, documentInfo>>

-----------------------------------------------------------------------------
(* Upload/process controller: handleUpload, resetUploadArea *)

\* how a /process-document request can end
UploadOutcome(kind, result) == [kind |-> kind, result |-> result]

FailureKinds == {"ok_partial",    \* 2xx, payload lacks category or urgency
                 "ok_badjson",    \* 2xx, body is not JSON
                 "err_detail",    \* non-2xx, body {detail: ...}
                 "err_nodetail",  \* non-2xx, JSON body without detail
                 "err_badjson",   \* non-2xx, body is not JSON
                 "transport"}     \* fetch rejects

\* a 2xx payload without the urgency field
PartialResults == { [document_id |-> d, category |-> "complaints"] : d \in DocIds }

UploadOutcomes ==
    { UploadOutcome("ok", r) : r \in Results } \cup
    { UploadOutcome("ok_partial", r) : r \in PartialResults } \cup
    { UploadOutcome(k, Null) : k \in FailureKinds \ {"ok_partial"} }

\* error.message of the exception the catch block of handleUpload receives
ErrorMessage(kind) ==
    CASE kind = "err_detail" -> "Error: Unsupported document"
      [] kind = "err_nodetail" -> "Error: Processing failed"
      [] kind = "err_badjson" -> "Error: Unexpected token"
      [] kind = "ok_badjson" -> "Error: Unexpected token"
      [] kind = "ok_partial" -> "Error: Cannot read properties of undefined"
      [] kind = "transport" -> "Error: Failed to fetch"
      [] kind = "unshift" -> "Error: recentDocuments.unshift is not a function"

\* click on uploadBtn (a disabled button dispatches no click): handleUpload
\* up to its await of fetch
ClickUpload ==
    /\ ~uploadBtnDisabled
    /\ lastOp' = Op("handleUpload", currentFile)
    /\ toasts' = <<>>
    /\ IF currentFile = Null
         THEN UNCHANGED <<uploadBtnDisabled, uploadReqs>>
         ELSE /\ Len(uploadReqs) < MaxInFlight
              /\ uploadBtnDisabled' = TRUE
              /\ uploadReqs' = Append(uploadReqs, currentFile)
    /\ UNCHANGED <<build, currentFile, resetTimers, recentVars, chatVars,
                   documentId, resultsView, catVars, searchVars>>

RemoveAt(s, i) == SubSeq(s, 1, i - 1) \o SubSeq(s, i + 1, Len(s))

\* the response of request i arrives: handleUpload from its await to its end
UploadResponse(i, outcome, limit) ==
    LET parsed == outcome.kind \in {"ok", "ok_partial"}
        shown == IF parsed
                   THEN DisplayResults(build, resultsView, outcome.result)
                   ELSE [view |-> resultsView, toasts |-> <<>>, threw |-> TRUE]
        saved == parsed /\ ~shown.threw /\ IsArray(recentDocuments)
        thrown == IF ~parsed THEN outcome.kind
                  ELSE IF shown.threw THEN "ok_partial" ELSE "unshift"
    IN
    /\ i \in 1..Len(uploadReqs)
    /\ uploadReqs' = RemoveAt(uploadReqs, i)
    /\ lastOp' = Op("uploadResponse", outcome)
    /\ uploadBtnDisabled' = FALSE
    /\ resultsView' = shown.view
    /\ IF saved
         THEN /\ clock < limit
              /\ resetTimers < MaxTimers
              /\ build = "part_000" => Len(catReqs) < MaxCatReqs
              /\ clock' = clock + 1
              /\ recentDocuments' =
                   JsArray(SaveToRecent(recentDocuments.array, outcome.result, clock'))
              /\ localStorage' = JSONStringify(recentDocuments'.array)
              /\ recorded' = Append(recorded, Entry(outcome.result, clock'))
              /\ toasts' = shown.toasts \o
                             <<Toast("Document processed successfully!", "success")>>
              /\ catReqs' = LoadDocumentsByCategory(build, catReqs)
              /\ categoriesView' = Superseded(build, categoriesView)
              /\ resetTimers' = resetTimers + 1
         ELSE /\ toasts' = shown.toasts \o <<Toast(ErrorMessage(thrown), "error")>>
              /\ UNCHANGED <<clock, recentDocuments, localStorage, recorded,
                             resetTimers, catVars>>
    /\ UNCHANGED <<build, currentFile, loadedAtStartup, uncaught, chatVars,
                   documentId, searchVars, tabRecent>>

\* the response of /documents-by-category request i arrives:
\* loadDocumentsByCategory from its await to its end
CategoriesResponse(i, outcome) ==
    /\ i \in 1..Len(catReqs)
    /\ catReqs' = RemoveAt(catReqs, i)
    /\ categoriesView' = [content |-> CategoryContent(outcome), latest |-> catReqs[i]]
    /\ toasts' = <<>>
    /\ lastOp' = Op("categoriesResponse", Str(outcome))
    /\ UNCHANGED <<build, uploadVars, recentVars, chatVars, documentId,
                   resultsView, searchVars>>

\* a second tab of the same build is opened: its DOMContentLoaded handler
\* reads the shared item (Null: no second tab is open)
OtherTabOpens ==
    /\ tabRecent = Null
    /\ tabRecent' = Startup(build, localStorage).docs
    /\ lastOp' = Op("otherTabLoaded", Null)
    /\ toasts' = <<>>
    /\ UNCHANGED <<build, uploadVars, recentDocuments, localStorage, recorded,
                   loadedAtStartup, clock, uncaught, chatVars, documentId,
                   resultsView, catVars, searchVars>>

\* an upload succeeds in the second tab: its saveToRecent
OtherTabRecords(result, limit) ==
    /\ IsArray(tabRecent)
    /\ clock < limit
    /\ clock' = clock + 1
    /\ tabRecent' = JsArray(SaveToRecent(tabRecent.array, result, clock'))
    /\ localStorage' = JSONStringify(tabRecent'.array)
    /\ lastOp' = Op("otherTabRecord", result)
    /\ toasts' = <<>>
    /\ UNCHANGED <<build, uploadVars, recentDocuments, recorded,
                   loadedAtStartup, uncaught, chatVars, documentId,
                   resultsView, catVars, searchVars>>

\* a reset that also empties the recent list
ResetClearsRecent ==
    /\ resetTimers > 0
    /\ resetTimers' = resetTimers - 1
    /\ currentFile' = Null
    /\ uploadBtnDisabled' = TRUE
    /\ recentDocuments' = JsArray(<<>>)
    /\ toasts' = <<>>
    /\ lastOp' = Op("resetUploadArea", Null)
    /\ UNCHANGED <<build, uploadReqs, localStorage, recorded, loadedAtStartup, clock,
                   uncaught, tabRecent, chatVars, documentId, resultsView, catVars,
                   searchVars>>

\* a reset timer fires: resetUploadArea
TimerFires ==
    /\ resetTimers > 0
    /\ resetTimers' = resetTimers - 1
    /\ currentFile' = Null
    /\ uploadBtnDisabled' = TRUE
    /\ toasts' = <<>>
    /\ lastOp' = Op("resetUploadArea", Null)
    /\ UNCHANGED <<build, uploadReqs, recentVars, chatVars, documentId,
                   resultsView, catVars, searchVars>>

-----------------------------------------------------------------------------
(* Conversational assistant: handleChat (main page), sendMessage (detail page) *)

Scopes == {"main", "doc"}


Whitespace == {" ", "\n", "\t"}

RECURSIVE TrimStart(_)
TrimStart(s) ==
    IF s # <<>> /\ Head(s) \in Whitespace THEN TrimStart(Tail(s)) ELSE s

\* String.prototype.trim
Trim(s) == Reverse(TrimStart(Reverse(TrimStart(s))))

\* the first index j >= 3 at which a closing ** ends a match of
\* /\*\*(.*?)\*\*/ that opened at index 1, or 0 when there is none
ClosingStars(s) ==
    LET ends == { j \in 3..(Len(s) - 1) :
                    /\ s[j] = "*" /\ s[j + 1] = "*"
                    /\ \A k \in 3..(j - 1) : s[k] # "\n" }
    IN IF Len(s) >= 4 /\ s[1] = "*" /\ s[2] = "*" /\ ends # {}
         THEN CHOOSE j \in ends : \A k \in ends : j <= k
         ELSE 0

RECURSIVE ReplaceBold(_)
\* content.replace(/\*\*(.*?)\*\*/g, '<strong>$1</strong>')
ReplaceBold(s) ==
    IF s = <<>> THEN <<>>
    ELSE IF ClosingStars(s) > 0
      THEN <<"<strong>">> \o SubSeq(s, 3, ClosingStars(s) - 1) \o <<"</strong>">>
             \o ReplaceBold(SubSeq(s, ClosingStars(s) + 2, Len(s)))
    ELSE <<Head(s)>> \o ReplaceBold(Tail(s))

\* .replace(/\n/g, '<br>')
ReplaceNewlines(s) == [i \in 1..Len(s) |-> IF s[i] = "\n" THEN "<br>" ELSE s[i]]

\* formatMessageContent of a string (of anything else it throws a TypeError)
formatMessageContent(chars) == ReplaceNewlines(ReplaceBold(chars))

Message(role, content) == [role |-> role, content |-> content]

\* the element addChatMessage / addMessageToChat appends
Bubble(role, chars) == [role |-> role, html |-> formatMessageContent(chars)]

Apology == <<"S","o","r","r","y">>

\* values of chatInputMain.value / chatInput.value when a send is triggered
ChatInputs == { <<"W","i","e","?">>, <<" ","o","k","\n">>, <<" ","\n">> }

\* the inputs of the scenario in which every request completes
LiveChatInputs == { <<"o","k">>, <<" ">> }

ChatResponses == { <<"*","*","J","a","*","*","\n","b">> }

ChatOutcome(kind, response) == [kind |-> kind, response |-> response]

ChatFailureKinds == {"ok_badjson",   \* 2xx, body is not JSON
                     "non2xx",       \* response.ok is false
                     "transport"}    \* fetch rejects

ChatOutcomes ==
    { ChatOutcome("ok", Str(r)) : r \in ChatResponses } \cup
    { ChatOutcome("ok", Undefined) } \cup    \* 2xx, JSON without a response string
    { ChatOutcome(k, Undefined) : k \in ChatFailureKinds }

\* an answer and a refusal
PageChatOutcomes ==
    { ChatOutcome("ok", Str(r)) : r \in ChatResponses } \cup {ChatOutcome("non2xx", Undefined)}

ChatErrorMessage(outcome) ==
    CASE outcome.kind = "ok" -> "Cannot read properties of undefined"
      [] outcome.kind = "ok_badjson" -> "Unexpected token"
      [] outcome.kind = "non2xx" -> "Chat request failed"
      [] outcome.kind = "transport" -> "Failed to fetch"

\* the prefix showToast is given in the catch block of each scope
ChatErrorToast(s, outcome) ==
    Toast(<<IF s = "main" THEN "Chat error: " ELSE "Error: ",
            ChatErrorMessage(outcome)>>, "error")

\* !documentId is false: the URL has a non-empty id parameter
HasId(id) == id # Null /\ id.id # ""

\* a request body that names the document in both scopes
ChatRequestAlwaysScoped(s, query, history) ==
    [query |-> query, document_id |-> documentId, chat_history |-> history]

\* the body of the POST /chat request
ChatRequest(s, query, history) ==
    IF s = "doc"
      THEN [query |-> query, document_id |-> documentId, chat_history |-> history]
      ELSE [query |-> query, chat_history |-> history]

\* whether the page of scope s has its chat listeners installed
ChatListening(s) ==
    IF s = "doc" THEN HasId(documentId) ELSE build = "part_000"

StaysEnabled == FALSE

\* chatBtnMain.disabled = true; chatInputMain.disabled = true (and the same
\* for sendBtn, chatInput) before the request is issued
DisabledWhileSending == TRUE

\* a transcript that keeps only the latest turn
PushTurnReplacing(history, query, response) ==
    <<Message("user", Str(query)), Message("assistant", response)>>

\* the two pushes in the opposite order
PushTurnAssistantFirst(history, query, response) ==
    Append(Append(history, Message("assistant", response)),
           Message("user", Str(query)))

PushAssistantOnly(history, query, response) ==
    Append(history, Message("assistant", response))

\* history.push({role: 'user', content: query});
\* history.push({role: 'assistant', content: data.response})
PushTurn(history, query, response) ==
    Append(Append(history, Message("user", Str(query))),
           Message("assistant", response))

\* a send that waits for the upload in progress
SendWhenNoUpload(s, value) ==
    /\ ChatListening(s)
    /\ uploadReqs = <<>>
    /\ toasts' = <<>>
    /\ IF Trim(value) = <<>>
         THEN UNCHANGED chatVars
         ELSE /\ Len(chatView["main"]) + Len(chatView["doc"]) < 2 * MaxTurns
              /\ chatView' = [chatView EXCEPT ![s] = Append(@, Bubble("user", Trim(value)))]
              /\ chatBtnDisabled' = [chatBtnDisabled EXCEPT ![s] = DisabledWhileSending]
              /\ chatInputDisabled' = [chatInputDisabled EXCEPT ![s] = DisabledWhileSending]
              /\ chatReqs' = [chatReqs EXCEPT
                                ![s] = Append(@, ChatRequest(s, Trim(value), chatHistory[s]))]
              /\ UNCHANGED chatHistory
    /\ UNCHANGED <<build, uploadVars, recentVars, documentId, resultsView,
                   catVars, searchVars, docReqs, documentInfo>>

\* a send that does not render the user message
SendWithoutEcho(s, value) ==
    /\ ChatListening(s)
    /\ toasts' = <<>>
    /\ IF Trim(value) = <<>>
         THEN UNCHANGED chatVars
         ELSE /\ Len(chatView["main"]) + Len(chatView["doc"]) < 2 * MaxTurns
              /\ chatBtnDisabled' = [chatBtnDisabled EXCEPT ![s] = DisabledWhileSending]
              /\ chatInputDisabled' = [chatInputDisabled EXCEPT ![s] = DisabledWhileSending]
              /\ chatReqs' = [chatReqs EXCEPT
                                ![s] = Append(@, ChatRequest(s, Trim(value), chatHistory[s]))]
              /\ UNCHANGED <<chatHistory, chatView, docReqs, documentInfo>>
    /\ UNCHANGED <<build, uploadVars, recentVars, documentId, resultsView,
                   catVars, searchVars>>

\* handleChat / sendMessage up to the await of fetch
Send(s, value) ==
    /\ ChatListening(s)
    /\ toasts' = <<>>
    /\ IF Trim(value) = <<>>
         THEN UNCHANGED chatVars
         ELSE /\ Len(chatView["main"]) + Len(chatView["doc"]) < 2 * MaxTurns
              /\ chatView' = [chatView EXCEPT ![s] = Append(@, Bubble("user", Trim(value)))]
              /\ chatBtnDisabled' = [chatBtnDisabled EXCEPT ![s] = DisabledWhileSending]
              /\ chatInputDisabled' = [chatInputDisabled EXCEPT ![s] = DisabledWhileSending]
              /\ chatReqs' = [chatReqs EXCEPT
                                ![s] = Append(@, ChatRequest(s, Trim(value), chatHistory[s]))]
              /\ UNCHANGED chatHistory
    /\ UNCHANGED <<build, uploadVars, recentVars, documentId, resultsView,
                   catVars, searchVars, docReqs, documentInfo>>

\* click on the send button (a disabled button dispatches no click)
ChatClick(s, value) ==
    /\ ~chatBtnDisabled[s]
    /\ lastOp' = Op("chatClick", [scope |-> s, value |-> value])
    /\ Send(s, value)

\* Enter pressed in the input (a disabled input receives no key events)
ChatEnter(s, value) ==
    /\ ~chatInputDisabled[s]
    /\ lastOp' = Op("chatEnter", [scope |-> s, value |-> value])
    /\ Send(s, value)

ReEnabledOnSuccessOnly(threw) == threw

\* the finally block: chatBtnMain.disabled = false; chatInputMain.disabled =
\* false (sendBtn, chatInput), whether or not the try block threw
FinallyDisabled(threw) == FALSE

\* the try block of handleChat after the awaits: render, then push
MainChatSuccess(history, view, query, response) ==
    IF IsStr(response)
      THEN [threw |-> FALSE,
            view |-> Append(view, Bubble("assistant", response.str)),
            history |-> PushTurn(history, query, response)]
      ELSE [threw |-> TRUE, view |-> view, history |-> history]

\* the try block of sendMessage after the awaits: push, then render
DocChatSuccess(history, view, query, response) ==
    IF IsStr(response)
      THEN [threw |-> FALSE,
            view |-> Append(view, Bubble("assistant", response.str)),
            history |-> PushTurn(history, query, response)]
      ELSE [threw |-> TRUE, view |-> view,
            history |-> PushTurn(history, query, response)]

ChatSuccess(s, history, view, query, response) ==
    IF s = "main" THEN MainChatSuccess(history, view, query, response)
    ELSE DocChatSuccess(history, view, query, response)

\* the response of request i of scope s arrives: the handler from its await
\* to its end
ChatResponse(s, i, outcome) ==
    /\ i \in 1..Len(chatReqs[s])
    /\ LET req == chatReqs[s][i]
           try == ChatSuccess(s, chatHistory[s], chatView[s], req.query,
                              outcome.response)
       IN /\ lastOp' = Op("chatResponse",
                          [scope |-> s, query |-> req.query, outcome |-> outcome])
          /\ IF outcome.kind = "ok" /\ ~try.threw
               THEN /\ chatView' = [chatView EXCEPT ![s] = try.view]
                    /\ chatHistory' = [chatHistory EXCEPT ![s] = try.history]
                    /\ toasts' = <<>>
               ELSE /\ chatView' = [chatView EXCEPT ![s] =
                          Append(IF outcome.kind = "ok" THEN try.view ELSE @,
                                 Bubble("assistant", Apology))]
                    /\ chatHistory' = [chatHistory EXCEPT ![s] =
                          IF outcome.kind = "ok" THEN try.history ELSE @]
                    /\ toasts' = <<ChatErrorToast(s, outcome)>>
    /\ chatReqs' = [chatReqs EXCEPT ![s] = RemoveAt(@, i)]
    /\ chatBtnDisabled' = [chatBtnDisabled EXCEPT ![s] =
          FinallyDisabled(~(outcome.kind = "ok" /\ IsStr(outcome.response)))]
    /\ chatInputDisabled' = [chatInputDisabled EXCEPT ![s] =
          FinallyDisabled(~(outcome.kind = "ok" /\ IsStr(outcome.response)))]
    /\ UNCHANGED <<build, uploadVars, recentVars, documentId, resultsView,
                   catVars, searchVars, docReqs, documentInfo>>

\* params.get('id'): no parameter, an empty one, the id of a document
DocumentIds == {Null, [id |-> ""], [id |-> "DOC-1"]}

\* GET /document/${documentId}
DocumentRequest(id) == [document |-> id.id]

\* loadDocument up to its await, called only when the URL has an id
LoadDocument(id) == IF HasId(id) THEN <<DocumentRequest(id)>> ELSE <<>>

DocumentOutcomes == {"ok",         \* 2xx with the document
                     "non2xx",     \* response.ok is false
                     "transport"}  \* fetch rejects

DocumentErrorMessage(outcome) ==
    CASE outcome = "non2xx" -> "Error: Failed to load document"
      [] outcome = "transport" -> "Error: Failed to fetch"

\* the response of the /document request arrives: loadDocument from its await
DocumentResponse(i, outcome) ==
    /\ i \in 1..Len(docReqs)
    /\ docReqs' = RemoveAt(docReqs, i)
    /\ lastOp' = Op("documentResponse", Str(outcome))
    /\ IF outcome = "ok"
         THEN /\ documentInfo' = [content |-> "document", id |-> docReqs[i].document]
              /\ toasts' = <<>>
         ELSE /\ documentInfo' = [content |-> "Failed to load document", id |-> ""]
              /\ toasts' = <<Toast(DocumentErrorMessage(outcome), "error")>>
    /\ UNCHANGED <<build, uploadVars, recentVars, documentId, resultsView,
                   catVars, searchVars, chatHistory, chatView, chatBtnDisabled,
                   chatInputDisabled, chatReqs>>

ChatLoaded(id) ==
    /\ documentId = id
    /\ docReqs = LoadDocument(id)
    /\ documentInfo = [content |-> "initial", id |-> ""]
    /\ chatHistory = [s \in Scopes |-> <<>>]
    /\ chatView = [s \in Scopes |-> <<>>]
    /\ chatBtnDisabled = [s \in Scopes |-> FALSE]
    /\ chatInputDisabled = [s \in Scopes |-> FALSE]
    /\ chatReqs = [s \in Scopes |-> <<>>]

-----------------------------------------------------------------------------
(* Semantic search: handleSearch, displaySearchResults *)

\* what the user may have typed into searchInput
SearchInputs == { <<>>, <<" ", "\t">>, <<" ","i","b","a","n"," ">>,
                  <<"k","y","c"," ","2">> }

\* encodeURIComponent on the characters that occur: a space becomes %20
RECURSIVE encodeURIComponent(_)
encodeURIComponent(s) ==
    IF s = <<>> THEN <<>>
    ELSE (IF Head(s) = " " THEN <<"%","2","0">> ELSE <<Head(s)>>)
         \o encodeURIComponent(Tail(s))

NResults == 5

\* GET /search-documents?query=...&n_results=5; the request remembers whether
\* it is the most recently issued one
SearchRequest(query) ==
    [query |-> encodeURIComponent(query), n_results |-> NResults, latest |-> TRUE]

IssueSearch(reqs, query) ==
    [i \in 1..Len(reqs) |-> [reqs[i] EXCEPT !.latest = FALSE]]
    \o <<SearchRequest(query)>>

SearchQueryRaw(value) == value

\* searchInput.value.trim()
SearchQuery(value) == Trim(value)

Searching == "Searching..."
NoResultsFound == "No results found"
SearchFailedAsEmpty == "No results found"
SearchFailed == "Search failed"

SearchHits == {JsArray(<<"DOC-1">>), JsArray(<<"DOC-2", "DOC-1">>)}

SearchOutcome(kind, results) == [kind |-> kind, results |-> results]

SearchFailureKinds == {"error",       \* non-2xx
                       "ok_badjson",  \* 2xx, body is not JSON
                       "transport"}   \* fetch rejects

SearchOutcomes ==
    { SearchOutcome("ok", r) : r \in SearchHits \cup {JsArray(<<>>), Undefined} }
    \cup { SearchOutcome(k, Null) : k \in SearchFailureKinds }

\* error.message of the exception the catch block of handleSearch receives
SearchErrorMessage(kind) ==
    CASE kind = "error" -> "Search error: Search failed"
      [] kind = "ok_badjson" -> "Search error: Unexpected token"
      [] kind = "transport" -> "Search error: Failed to fetch"

\* displaySearchResults(results): the content of searchResults
displaySearchResults(results) ==
    IF ~IsArray(results) \/ Len(results.array) = 0
      THEN [content |-> NoResultsFound, hits |-> <<>>]
      ELSE [content |-> "results", hits |-> results.array]

\* handleSearch up to its await of fetch
HandleSearch(value) ==
    /\ IF SearchQuery(value) = <<>>
         THEN /\ toasts' = <<Toast("Please enter a search query", "warning")>>
              /\ UNCHANGED searchVars
         ELSE /\ Len(searchReqs) < MaxSearches
              /\ toasts' = <<>>
              /\ searchView' = [content |-> Searching, hits |-> <<>>, latest |-> TRUE]
              /\ searchReqs' = IssueSearch(searchReqs, SearchQuery(value))
    /\ UNCHANGED <<build, uploadVars, recentVars, chatVars, documentId,
                   resultsView, catVars>>

\* click on the search button
SearchClick(value) ==
    /\ lastOp' = Op("searchClick", Str(value))
    /\ HandleSearch(value)

\* Enter in searchInput, bound by the older build
SearchEnter(value) ==
    /\ build = "app_js"
    /\ lastOp' = Op("searchEnter", Str(value))
    /\ HandleSearch(value)

\* the response of search request i arrives: handleSearch from its await on
SearchResponse(i, outcome) ==
    /\ i \in 1..Len(searchReqs)
    /\ searchReqs' = RemoveAt(searchReqs, i)
    /\ lastOp' = Op("searchResponse", outcome)
    /\ IF outcome.kind = "ok"
         THEN /\ searchView' = [content |-> displaySearchResults(outcome.results).content,
                                hits |-> displaySearchResults(outcome.results).hits,
                                latest |-> searchReqs[i].latest]
              /\ toasts' = <<>>
         ELSE /\ searchView' = [content |-> SearchFailed, hits |-> <<>>,
                                latest |-> searchReqs[i].latest]
              /\ toasts' = <<Toast(SearchErrorMessage(outcome.kind), "error")>>
    /\ UNCHANGED <<build, uploadVars, recentVars, chatVars, documentId,
                   resultsView, catVars>>

-----------------------------------------------------------------------------
(* Specifications *)

\* the main page opened on any durable item; no detail page is open
Init ==
    \E b \in Builds, stored \in InitialStorage :
        /\ PageLoaded(b, stored)
        /\ ChatLoaded(Null)
        /\ clock = 0

SelectFile == \E f \in Files : HandleFile(f)

ResponseArrives ==
    \E i \in 1..MaxInFlight, o \in UploadOutcomes : UploadResponse(i, o, MaxUploads)

CategoriesArrive ==
    \E i \in 1..MaxCatReqs, o \in CategoryOutcomes : CategoriesResponse(i, o)

\* the main page: staging, upload, recent-document store, reload
Next ==
    \/ SelectFile
    \/ ClickUpload
    \/ ResponseArrives
    \/ CategoriesArrive
    \/ TimerFires
    \/ Reload

Spec == Init /\ [][Next]_vars

\* the main page when every pending setTimeout callback is eventually run
SpecTimerLive == Init /\ [][Next]_vars /\ WF_vars(TimerFires)

SelectSameFile ==
    HandleFile(File(<<"a",".","p","d","f">>, "application/pdf", 1024))

\* the store scenario: every upload is processed or refused by the server
StoreOutcomes ==
    { UploadOutcome("ok", r) : r \in Results } \cup {UploadOutcome("err_detail", Null)}

StoreResponseArrives ==
    \E i \in 1..MaxInFlight, o \in StoreOutcomes : UploadResponse(i, o, MaxRecords)

StoreCategoriesArrive == \E i \in 1..MaxCatReqs : CategoriesResponse(i, "ok")

\* the recent-document store over many uploads of one file
NextRecent ==
    \/ SelectSameFile
    \/ ClickUpload
    \/ StoreResponseArrives
    \/ StoreCategoriesArrive
    \/ TimerFires
    \/ Reload

SpecRecent == Init /\ [][NextRecent]_vars

\* the item after ten uploads of an earlier session
TenText ==
    JSONStringify([i \in 1..MaxRecent |->
                     Entry([document_id |-> "DOC-1", category |-> "complaints",
                            urgency |-> "high"], 0)])

InitTabs ==
    \E b \in Builds, stored \in {Null, TenText} :
        /\ PageLoaded(b, stored)
        /\ ChatLoaded(Null)
        /\ clock = 0

TabResponseArrives ==
    \E i \in 1..MaxInFlight, o \in StoreOutcomes : UploadResponse(i, o, MaxTabWrites)

OtherTabUploads == \E r \in Results : OtherTabRecords(r, MaxTabWrites)

\* two tabs of one build writing the shared item
NextTabs ==
    \/ SelectSameFile
    \/ ClickUpload
    \/ TabResponseArrives
    \/ StoreCategoriesArrive
    \/ TimerFires
    \/ OtherTabOpens
    \/ OtherTabUploads

SpecTabs == InitTabs /\ [][NextTabs]_vars

SelectAnyFile == \E f \in AllFiles : HandleFile(f)

\* the input validator on every combination of name, media type and size
NextValidate == SelectAnyFile

InitValidate ==
    \E b \in Builds :
        /\ PageLoaded(b, Null)
        /\ ChatLoaded(Null)
        /\ clock = 0

SpecValidate == InitValidate /\ [][NextValidate]_vars

\* payloads with alerts and metadata: a null value and a string, an empty
\* string and the number 0, and a payload with neither field
RenderResults ==
    { [document_id |-> "DOC-1", category |-> "complaints", urgency |-> "high",
       alerts |-> <<"Missing customer_id", "Missing iban">>,
       metadata |-> << <<"customer_id", Null>>,
                       <<"iban", Str(<<"D","E","8","9">>)>> >>],
      [document_id |-> "DOC-2", category |-> "kyc_updates", urgency |-> "low",
       alerts |-> <<>>,
       metadata |-> << <<"name", Str(<<>>)>>, <<"amount", Num(0)>> >>] } \cup Results

\* 2xx payloads that lack the urgency or the category field
RenderPartialResults ==
    { [document_id |-> "DOC-2", category |-> "kyc_updates"],
      [document_id |-> "DOC-2"] }

RenderOutcomes ==
    { UploadOutcome("ok", r) : r \in RenderResults } \cup
    { UploadOutcome("ok_partial", r) : r \in RenderPartialResults } \cup
    { UploadOutcome("err_detail", Null) }

RenderResponseArrives ==
    \E i \in 1..MaxInFlight, o \in RenderOutcomes : UploadResponse(i, o, MaxUploads)

\* the result renderer: uploads of one file answered by every kind of payload
NextRender ==
    \/ SelectSameFile
    \/ ClickUpload
    \/ RenderResponseArrives
    \/ StoreCategoriesArrive
    \/ TimerFires

SpecRender == InitValidate /\ [][NextRender]_vars

ClickSend == \E s \in Scopes, v \in ChatInputs : ChatClick(s, v)

PressEnter == \E s \in Scopes, v \in ChatInputs : ChatEnter(s, v)

ChatResponseArrives ==
    \E s \in Scopes, i \in 1..MaxTurns, o \in ChatOutcomes : ChatResponse(s, i, o)

InitChat ==
    \E b \in Builds, id \in DocumentIds :
        /\ PageLoaded(b, Null)
        /\ ChatLoaded(id)
        /\ clock = 0

\* the two assistant controllers
NextChat ==
    \/ ClickSend
    \/ PressEnter
    \/ ChatResponseArrives

SpecChat == InitChat /\ [][NextChat]_vars

\* the response of an outstanding /chat request of scope s arrives
ChatCompletes(s) ==
    \E i \in 1..MaxTurns, o \in ChatOutcomes : ChatResponse(s, i, o)

LiveClickSend == \E s \in Scopes, v \in LiveChatInputs : ChatClick(s, v)

LiveChatResponseArrives == \E s \in Scopes : ChatCompletes(s)

NextChatLive ==
    \/ LiveClickSend
    \/ LiveChatResponseArrives

\* the assistant controllers when every request is answered or fails: fetch
\* settles, and the event loop then runs the rest of the handler
DocumentArrives ==
    \E i \in 1..Len(docReqs), o \in DocumentOutcomes : DocumentResponse(i, o)

\* the detail page beside the main page: document load and both assistants
NextDetail ==
    \/ LiveClickSend
    \/ LiveChatResponseArrives
    \/ DocumentArrives

SpecDetail == InitChat /\ [][NextDetail]_vars

SpecChatLive ==
    /\ InitChat
    /\ [][NextChatLive]_vars
    /\ \A s \in Scopes : WF_vars(ChatCompletes(s))

ClickSearch == \E v \in SearchInputs : SearchClick(v)

EnterSearch == \E v \in SearchInputs : SearchEnter(v)

SearchResponseArrives ==
    \E i \in 1..MaxSearches, o \in SearchOutcomes : SearchResponse(i, o)

\* the search controller
NextSearch ==
    \/ ClickSearch
    \/ EnterSearch
    \/ SearchResponseArrives

SpecSearch == InitValidate /\ [][NextSearch]_vars

FirstFile == File(<<"a",".","p","d","f">>, "application/pdf", 1024)

SecondFile == File(<<"b",".","P","N","G">>, "", SizeLimit)

\* the user picks a.pdf until an upload has succeeded
SelectFirstFile ==
    /\ recorded = <<>>
    /\ HandleFile(FirstFile)

\* and picks b.PNG from then on
SelectSecondFile ==
    /\ recorded # <<>>
    /\ HandleFile(SecondFile)

\* uploads of one file followed by the staging and uploads of another
NextReset ==
    \/ SelectFirstFile
    \/ SelectSecondFile
    \/ ClickUpload
    \/ StoreResponseArrives
    \/ StoreCategoriesArrive
    \/ TimerFires

SpecReset == InitValidate /\ [][NextReset]_vars

\* one accepted and one rejected file
PageFiles == { File(<<"a",".","p","d","f">>, "application/pdf", 1024),
              File(<<"d",".","e","x","e">>, "application/octet-stream", 1024) }

PageSelectFile == \E f \in PageFiles : HandleFile(f)

PageResponseArrives ==
    \E i \in 1..MaxInFlight, o \in StoreOutcomes : UploadResponse(i, o, MaxUploads)

PageCategoriesArrive == \E i \in 1..MaxCatReqs : CategoriesResponse(i, "failed")

\* the first search of the page
PageSearch ==
    /\ searchView = NoSearch
    /\ searchReqs = <<>>
    /\ SearchClick(<<"k","y","c"," ","2">>)

PageSearchResponseArrives ==
    \E i \in 1..MaxSearches : SearchResponse(i, SearchOutcome("ok", JsArray(<<"DOC-1">>)))

\* the first message to the assistant
PageChat ==
    /\ chatView["main"] = <<>>
    /\ ChatClick("main", <<"o","k">>)

PageChatResponseArrives ==
    \E i \in 1..MaxTurns, o \in PageChatOutcomes : ChatResponse("main", i, o)

\* every controller of the main page side by side
NextPage ==
    \/ PageSelectFile
    \/ ClickUpload
    \/ PageResponseArrives
    \/ PageCategoriesArrive
    \/ TimerFires
    \/ PageSearch
    \/ PageSearchResponseArrives
    \/ PageChat
    \/ PageChatResponseArrives

SpecPage == InitValidate /\ [][NextPage]_vars

-----------------------------------------------------------------------------
(* Claims *)

\* C1: at most one /process-document request is outstanding at any time,
\* whatever the interleaving of staging, submit clicks, responses and the
\* delayed reset.
C1_SingleUploadInFlight == Len(uploadReqs) <= 1

\* C2: whenever a file is staged or a /process-document request is
\* outstanding, the staged file currentFile is not null.
C2_StagedFileNeverNull == Len(uploadReqs) > 0 => currentFile # Null

\* C3: in both chat scopes, a chat turn whose assistant turn in the rendered
\* view is the apology leaves the context transcript exactly as it was.
C3_FailedTurnKeepsTranscript ==
    [][\A s \in Scopes :
         (/\ Len(chatView'[s]) > Len(chatView[s])
          /\ Last(chatView'[s]) = Bubble("assistant", Apology))
         => chatHistory'[s] = chatHistory[s]]_vars

\* a step in which a /chat request of scope s completes with a 2xx response
\* whose body holds a response string
SuccessfulTurn(s) ==
    /\ Len(chatReqs'[s]) < Len(chatReqs[s])
    /\ lastOp'.op = "chatResponse"
    /\ lastOp'.arg.outcome.kind = "ok"
    /\ IsStr(lastOp'.arg.outcome.response)

\* C4: in both chat scopes, a successful chat turn appends exactly two
\* messages to the end of the context transcript, {user, the sent text} then
\* {assistant, the server's response}, and appends the assistant response
\* to the rendered view.
C4_SuccessfulTurnAppendsTwo ==
    [][\A s \in Scopes :
         SuccessfulTurn(s) =>
           /\ chatHistory'[s] = chatHistory[s] \o
                << [role |-> "user", content |-> Str(lastOp'.arg.query)],
                   [role |-> "assistant", content |-> lastOp'.arg.outcome.response] >>
           /\ chatView'[s] = chatView[s] \o
                << [role |-> "assistant",
                    html |-> formatMessageContent(lastOp'.arg.outcome.response.str)] >>
           /\ Last(chatView[s]) =
                [role |-> "user", html |-> formatMessageContent(lastOp'.arg.query)]]_vars

\* a second successful turn of one scope has just been handled
C4_Witness ==
    /\ lastOp.op = "chatResponse"
    /\ lastOp.arg.outcome.kind = "ok"
    /\ IsStr(lastOp.arg.outcome.response)
    /\ Len(chatHistory[lastOp.arg.scope]) = 4
    /\ chatHistory[lastOp.arg.scope][3].content # chatHistory[lastOp.arg.scope][1].content

\* C5: within one chat scope at most one /chat request is outstanding, and
\* while it is outstanding the send button and the input of that scope are
\* disabled.
C5_SingleChatInFlight ==
    \A s \in Scopes :
        /\ Len(chatReqs[s]) <= 1
        /\ Len(chatReqs[s]) = 1 => chatBtnDisabled[s] /\ chatInputDisabled[s]

\* both scopes have a request outstanding, the main one after an earlier turn
C5_Witness ==
    /\ Len(chatReqs["main"]) = 1
    /\ Len(chatReqs["doc"]) = 1
    /\ Len(chatView["main"]) = 3

RECURSIVE SuccessfulBubbles(_)
\* the bubbles of the turns of a rendered view that did not end in the apology
SuccessfulBubbles(view) ==
    IF Len(view) < 2 THEN <<>>
    ELSE (IF view[2] = Bubble("assistant", Apology) THEN <<>>
          ELSE <<view[1], view[2]>>)
         \o SuccessfulBubbles(SubSeq(view, 3, Len(view)))

\* a transcript as the view would render it
Rendered(history) ==
    [i \in 1..Len(history) |->
       [role |-> history[i].role,
        html |-> IF IsStr(history[i].content)
                   THEN formatMessageContent(history[i].content.str)
                   ELSE <<"undefined">>]]

\* C6: every /chat request carries as chat_history the earlier successful
\* turns in order and nothing from failed turns, and carries the new user
\* text separately as query.
C6_RequestCarriesSuccessfulTurns ==
    \A s \in Scopes : \A i \in 1..Len(chatReqs[s]) :
        /\ Rendered(chatReqs[s][i].chat_history) =
             SuccessfulBubbles(SubSeq(chatView[s], 1, Len(chatView[s]) - 1))
        /\ Last(chatView[s]) = Bubble("user", chatReqs[s][i].query)

\* the allow-list and the extensions of the validator's contract
C10_Accepts(f) ==
    /\ \/ f.type \in {"application/pdf", "image/jpeg", "image/jpg", "image/png",
                      "text/plain"}
       \/ \E e \in {<<".","p","d","f">>, <<".","j","p","g">>, <<".","j","p","e","g">>,
                    <<".","p","n","g">>, <<".","t","x","t">>} :
             /\ Len(f.name) >= Len(e)
             /\ ToLowerCase(SubSeq(f.name, Len(f.name) - Len(e) + 1, Len(f.name))) = e
    /\ f.size <= 10 * 1024 * 1024

\* C10: handleFile makes a file the staged file exactly when its media type
\* is in the allow-list or its name ends in pdf/jpg/jpeg/png/txt (in any
\* case), and its size is at most 10 MiB.
C10_ValidatorAcceptsExactly ==
    lastOp.op = "handleFile" =>
        /\ (currentFile = lastOp.arg /\ ~uploadBtnDisabled) <=> C10_Accepts(lastOp.arg)
        /\ ~C10_Accepts(lastOp.arg) => Len(toasts) = 1

\* a file of exactly 10 MiB, known only by its upper-case extension, is staged
C10_Witness ==
    /\ lastOp.op = "handleFile"
    /\ lastOp.arg.size = 10 * 1024 * 1024
    /\ lastOp.arg.type = ""
    /\ lastOp.arg.name = <<"b",".","P","N","G">>
    /\ currentFile = lastOp.arg

\* what the durable item holds, read back as a sequence of entries
C7_Durable == JSONParse(localStorage)

\* C7: after N successful saveToRecent calls in one page session, the
\* in-memory sequence and the durable record both hold exactly the
\* min(N, 10) most recently recorded entries, most recent first.
C7_HoldsMinNTen ==
    Len(recorded) >= 1 =>
        /\ recentDocuments =
             [array |-> SubSeq(Reverse(recorded), 1, Min(Len(recorded), 10))]
        /\ localStorage # Null
        /\ C7_Durable = recentDocuments

\* the entries of this session, most recent first, then those found at startup
C7_Expected == Reverse(recorded) \o loadedAtStartup.array

\* C7 (amended): after N successful saveToRecent calls in one page session,
\* both hold the session's entries most recent first, followed by the entries
\* the session found at startup, cut to the first 10; that is exactly the
\* min(N, 10) most recent ones when the session started empty or N >= 10.
C7_HoldsSessionThenLoaded ==
    Len(recorded) >= 1 =>
        /\ IsArray(loadedAtStartup)
        /\ recentDocuments =
             [array |-> SubSeq(C7_Expected, 1, Min(Len(C7_Expected), 10))]
        /\ localStorage # Null
        /\ C7_Durable = recentDocuments
        /\ \A i \in 1..Min(Len(recorded), 10) :
               recentDocuments.array[i] = recorded[Len(recorded) + 1 - i]
        /\ (loadedAtStartup.array = <<>> \/ Len(recorded) >= 10)
             => Len(recentDocuments.array) = Min(Len(recorded), 10)

\* an eleventh entry has been recorded in a session that loaded earlier ones
C7_Witness ==
    /\ Len(recorded) = 11
    /\ IsArray(loadedAtStartup)
    /\ Len(loadedAtStartup.array) = 1
    /\ Len(recentDocuments.array) = 10
    /\ recentDocuments.array[1].timestamp = 12
    /\ recentDocuments.array[10].timestamp = 3

\* C8: when the page is started again after a record persisted the sequence,
\* the in-memory sequence after startup equals the persisted one.
C8_ReloadRoundTrip ==
    (/\ lastOp.op = "DOMContentLoaded"
     /\ localStorage # Null
     /\ localStorage.json = "array")
    => recentDocuments = JSONParse(localStorage)

\* C9: when the durable record is absent or cannot be parsed as the expected
\* sequence, the sequence starts empty, no error escapes startup and later
\* records can succeed.
C9_MalformedStartsEmpty ==
    (localStorage = Null \/ localStorage.json # "array")
    => recentDocuments = [array |-> <<>>] /\ ~uncaught

\* C11: a file rejected by validation never causes a network request: every
\* /process-document request carries a file that passes the acceptance rule.
C11_RejectedFileNeverSent ==
    \A i \in 1..Len(uploadReqs) : C10_Accepts(uploadReqs[i])

\* a file was just rejected while a request for the staged file is outstanding
C11_Witness ==
    /\ lastOp.op = "handleFile"
    /\ ~C10_Accepts(lastOp.arg)
    /\ Len(toasts) = 1
    /\ Len(uploadReqs) > 0
    /\ currentFile # lastOp.arg

\* a step in which the response of upload request i arrives and the upload
\* ends with the error notification
FailedUpload(i) ==
    /\ lastOp'.op = "uploadResponse"
    /\ i \in 1..Len(uploadReqs)
    /\ uploadReqs' = RemoveAt(uploadReqs, i)
    /\ toasts' # <<>>
    /\ Last(toasts').type = "error"

\* C12: when a /process-document request fails, the controller is back in
\* Staged as soon as the failure is handled: the file that was sent is still
\* the staged file, the submit button is enabled and no reset timer has been
\* scheduled, so a further click sends the same file again.
C12_FailureReturnsToStaged ==
    [][\A i \in 1..MaxInFlight :
         FailedUpload(i) =>
            /\ currentFile' = uploadReqs[i]
            /\ ~uploadBtnDisabled'
            /\ resetTimers' = resetTimers]_vars

\* the same, for the case in which nobody staged another file meanwhile
C12_StagedAfterFailure ==
    [][\A i \in 1..MaxInFlight :
         FailedUpload(i) => currentFile' # Null]_vars

\* the notification the claim expects for an upload that failed with a
\* non-2xx response or a transport fault
C13_Expected(kind) ==
    IF kind = "err_detail" THEN Toast("Error: Unsupported document", "error")
    ELSE Toast("Error: Processing failed", "error")

\* C13: every upload that fails with a non-2xx response or a transport fault
\* surfaces exactly one error notification, carrying the server's detail when
\* the error body has one and the generic processing-failure message
\* otherwise (body without detail, body that is not JSON, transport fault).
C13_FailedUploadNotifiesOnce ==
    (/\ lastOp.op = "uploadResponse"
     /\ lastOp.arg.kind \in {"err_detail", "err_nodetail", "err_badjson", "transport"})
    => toasts = <<C13_Expected(lastOp.arg.kind)>>

\* the part of C13 the code keeps: one notification, of type error
C13_OneErrorToast ==
    (/\ lastOp.op = "uploadResponse"
     /\ lastOp.arg.kind \in {"err_detail", "err_nodetail", "err_badjson", "transport"})
    => Len(toasts) = 1 /\ toasts[1].type = "error"

\* the results display after a complete rendering of payload r
C14_Complete(r) == DisplayResults(build, NoResults, r).view

\* C14: no partial result is ever rendered: in every reachable state the
\* results display is either untouched by any upload or shows all fields of
\* one single response.
C14_NoPartialRender ==
    \/ resultsView = NoResults
    \/ \E r \in RenderResults : resultsView = C14_Complete(r)

\* C14, second sentence: an upload that ends with the error notification
\* leaves the results display exactly as it was.
C14_FailedUploadKeepsDisplay ==
    [][\A i \in 1..MaxInFlight :
         FailedUpload(i) => resultsView' = resultsView]_vars

\* a step in which an upload ends with the success notification
SucceededUpload ==
    /\ lastOp'.op = "uploadResponse"
    /\ toasts' # <<>>
    /\ Last(toasts').type = "success"

\* what C15 allows a step to do to the records of this page session and to
\* the category loads awaiting their response
C15_Step ==
    IF lastOp'.op = "DOMContentLoaded" THEN TRUE
    ELSE IF SucceededUpload
      THEN /\ Len(recorded') = Len(recorded) + 1
           /\ SubSeq(recorded', 1, Len(recorded)) = recorded
           /\ Len(catReqs') = Len(catReqs) + 1
    ELSE /\ recorded' = recorded
         /\ Len(catReqs') <= Len(catReqs)

\* C15: every successful upload causes exactly one append to the recent
\* store and exactly one category refresh request; a failed upload causes
\* neither, and no other action causes a record or, after the initial page
\* load, a category refresh.
C15_RecordAndRefreshPerSuccess == [][C15_Step]_vars

\* C15 restricted to the newer build, which has the category view
C15_NewerBuild == [][build = "part_000" => C15_Step]_vars

\* the most recent step was an upload that ended with the success notification
UploadSucceeded ==
    /\ lastOp.op = "uploadResponse"
    /\ toasts # <<>>
    /\ Last(toasts).type = "success"

C16_Alerts(result) == IF Has(result, "alerts") THEN result.alerts ELSE <<>>

C16_Warnings == SelectSeq(toasts, LAMBDA t : t.type = "warning")

C16_Surfaced ==
    UploadSucceeded =>
        LET alerts == C16_Alerts(lastOp.arg.result)
        IN  /\ Len(C16_Warnings) = Len(alerts)
            /\ \A i \in 1..Len(alerts) : C16_Warnings[i].message = alerts[i]

\* C16: for every successful upload whose response carries alerts a1..an,
\* each alert is surfaced as a notification exactly once, in array order;
\* with no alerts (absent or empty) no alert notification is shown.
C16_AlertsSurfacedOnceInOrder == C16_Surfaced

\* C16 restricted to the newer build
C16_NewerBuild == build = "part_000" => C16_Surfaced

C17_Metadata(result) == IF Has(result, "metadata") THEN result.metadata ELSE <<>>

\* absent in the sense of the claim: null or the empty string
C17_Absent(v) == v = Null \/ v = Str(<<>>)

\* the row of entry i of the metadata is row i of the display, labelled by
\* its key, with the literal value when present and marked missing when absent
C17_RowFor(entries, i) ==
    /\ i <= Len(resultsView.customerInfo)
    /\ resultsView.customerInfo[i].label = formatLabel(Chars[entries[i][1]])
    /\ IF C17_Absent(entries[i][2])
         THEN resultsView.customerInfo[i].missing
         ELSE /\ ~resultsView.customerInfo[i].missing
              /\ resultsView.customerInfo[i].value = StringOf(entries[i][2])

\* C17: for every key of the metadata mapping of a rendered response the
\* display has exactly one row: the literal value when the value is present,
\* the missing indicator when it is null or empty; no key is skipped and no
\* present value is shown as missing.
C17_OneRowPerMetadataKey ==
    UploadSucceeded =>
        LET entries == C17_Metadata(lastOp.arg.result)
        IN  /\ Len(resultsView.customerInfo) = Len(entries)
            /\ \A i \in 1..Len(entries) : C17_RowFor(entries, i)

\* C17 for the newer build and values that are strings or null
C17_NewerBuildStrings ==
    (UploadSucceeded /\ build = "part_000") =>
        LET entries == C17_Metadata(lastOp.arg.result)
        IN  /\ Len(resultsView.customerInfo) = Len(entries)
            /\ \A i \in 1..Len(entries) :
                  ~IsNum(entries[i][2]) => C17_RowFor(entries, i)

\* the most recent step was handleSearch, by click or by Enter
Searched == lastOp.op \in {"searchClick", "searchEnter"}

\* empty or made of whitespace only
C18_Blank(chars) == \A i \in 1..Len(chars) : chars[i] \in {" ", "\t", "\n"}

\* C18: a search whose query is empty or whitespace-only is rejected locally:
\* exactly one warning notification is shown, no /search-documents request
\* is issued and the results area is unchanged.
C18_BlankQueryRejectedLocally ==
    [][(lastOp'.op \in {"searchClick", "searchEnter"} /\ C18_Blank(lastOp'.arg.str))
         => /\ Len(toasts') = 1
            /\ toasts'[1].type = "warning"
            /\ searchReqs' = searchReqs
            /\ searchView' = searchView]_vars

\* a whitespace-only query was rejected while earlier results are on display
C18_Witness ==
    /\ Searched
    /\ lastOp.arg.str # <<>>
    /\ C18_Blank(lastOp.arg.str)
    /\ Len(toasts) = 1
    /\ searchView.content = "results"

\* C19: the results area after a search with zero results (results absent
\* or empty) is the no-results placeholder; after a failed search (non-2xx
\* or transport fault) it is the failure placeholder, together with an error
\* notification; the two states always differ.
C19_EmptyAndFailureDiffer ==
    lastOp.op = "searchResponse" =>
        /\ (lastOp.arg.kind = "ok" /\ lastOp.arg.results \in {Undefined, JsArray(<<>>)})
             => (searchView.content = "No results found" /\ toasts = <<>>)
        /\ lastOp.arg.kind \in {"error", "transport"}
             => /\ searchView.content = "Search failed"
                /\ searchView.content # "No results found"
                /\ Len(toasts) = 1
                /\ toasts[1].type = "error"

\* a search has just failed
C19_Witness ==
    /\ lastOp.op = "searchResponse"
    /\ lastOp.arg.kind = "transport"
    /\ searchView.content = "Search failed"

\* a search has just returned an empty result list; a second witness of C19
C19_WitnessEmpty ==
    /\ lastOp.op = "searchResponse"
    /\ lastOp.arg.kind = "ok"
    /\ lastOp.arg.results = Undefined
    /\ searchView.content = "No results found"

\* C20: in every reachable state in which at least one /search-documents
\* request is outstanding, the results area shows the loading placeholder.
C20_LoadingWhileOutstanding ==
    Len(searchReqs) > 0 => searchView.content = "Searching..."

\* C21: in each chat scope every accepted send is eventually followed, once
\* its request completes with success or failure, by a state in which the
\* scope's input and send button are enabled again.
C21_SendEventuallyReEnabled ==
    \A s \in Scopes :
        (Len(chatReqs[s]) > 0) ~> (~chatBtnDisabled[s] /\ ~chatInputDisabled[s])

\* a request of the detail page has just failed and its controls are enabled
C21_Witness ==
    /\ lastOp.op = "chatResponse"
    /\ lastOp.arg.scope = "doc"
    /\ lastOp.arg.outcome.kind = "transport"
    /\ ~chatBtnDisabled["doc"]
    /\ ~chatInputDisabled["doc"]

\* the most recent step handled an error of the taxonomy: a validation
\* rejection, a failed upload, search, chat turn or category load, or a blank
\* search or chat submission
C22_ErrorStep(silent) ==
    CASE lastOp.op = "handleFile" -> ~C10_Accepts(lastOp.arg)
      [] lastOp.op = "uploadResponse" -> lastOp.arg.kind \in FailureKinds
      [] lastOp.op = "searchResponse" -> lastOp.arg.kind \in SearchFailureKinds
      [] lastOp.op = "chatResponse" ->
            \/ lastOp.arg.outcome.kind \in ChatFailureKinds
            \/ ~IsStr(lastOp.arg.outcome.response)
      [] lastOp.op = "categoriesResponse" -> silent /\ lastOp.arg = Str("failed")
      [] lastOp.op \in {"searchClick", "searchEnter"} -> C18_Blank(lastOp.arg.str)
      [] lastOp.op \in {"chatClick", "chatEnter"} ->
            silent /\ C18_Blank(lastOp.arg.value)
      [] OTHER -> FALSE

\* C22: every error of the taxonomy surfaces at least one notification.
C22_EveryErrorNotifies == C22_ErrorStep(TRUE) => Len(toasts) >= 1

\* C22 without the failed category load and the blank chat submission
C22_LoudErrorsNotify == C22_ErrorStep(FALSE) => Len(toasts) >= 1

\* the upload controller is Idle: no staged file, submit button disabled
Idle == currentFile = Null /\ uploadBtnDisabled

\* a step in which handleFile accepts a file
AcceptsFile == lastOp'.op = "handleFile" /\ C10_Accepts(lastOp'.arg)

\* C23: after a successful upload the controller reaches Idle when the
\* fixed-delay timer fires (the staged file is cleared and the submit button
\* disabled), and it stays Idle until a new file is accepted.
C23_IdleUntilNewFile ==
    [][(Idle /\ ~AcceptsFile) =>
          (currentFile' = Null /\ uploadBtnDisabled')]_vars

\* C23, first half: a successful upload is eventually followed by Idle
C23_EventuallyIdle == UploadSucceeded ~> Idle

\* no step of this kind issues a network request of any controller
NoRequestIssued ==
    /\ uploadReqs' = uploadReqs
    /\ catReqs' = catReqs
    /\ searchReqs' = searchReqs
    /\ chatReqs' = chatReqs

\* C24: staging a new accepted file replaces the previously staged file
\* without issuing any network request: after it the staged file is the new
\* one; a submit sends the file staged at that moment, and between stagings
\* the staged file only changes by being cleared, so a replaced file is never
\* sent unless it is selected again.
C24_StagingReplaces ==
    [][/\ AcceptsFile => (currentFile' = lastOp'.arg /\ NoRequestIssued)
       /\ (lastOp'.op = "handleUpload" /\ uploadReqs' # uploadReqs)
            => (uploadReqs' = Append(uploadReqs, currentFile)
                /\ currentFile' = currentFile)
       /\ ~AcceptsFile => currentFile' \in {currentFile, Null}]_vars

\* a second, different file has just been staged over the first one
C24_Witness ==
    /\ lastOp.op = "handleFile"
    /\ currentFile = lastOp.arg
    /\ Len(uploadReqs) = 1
    /\ uploadReqs[1] # currentFile

\* the number of entries of the durable record
C25_DurableLen ==
    IF localStorage' # Null /\ localStorage'.json = "array"
      THEN Len(localStorage'.objs) ELSE 0

\* C25: with two tabs sharing the durable record, each record writes the
\* whole in-memory sequence of the tab that records and nothing else changes
\* the record or either sequence, so the durable record always equals the
\* sequence of the tab that wrote last; it never holds more than 10 entries.
C25_LastWriterWins ==
    [][/\ IF SucceededUpload
            THEN /\ JSONParse(localStorage') = recentDocuments'
                 /\ tabRecent' = tabRecent
          ELSE IF lastOp'.op = "otherTabRecord"
            THEN /\ JSONParse(localStorage') = tabRecent'
                 /\ recentDocuments' = recentDocuments
          ELSE /\ localStorage' = localStorage
               /\ recentDocuments' = recentDocuments
               /\ tabRecent' = tabRecent \/ lastOp'.op = "otherTabLoaded"
       /\ C25_DurableLen <= 10]_vars

\* the second tab has just overwritten a record of this tab: the durable
\* record is its sequence and not this tab's
C25_Witness ==
    /\ lastOp.op = "otherTabRecord"
    /\ Len(recorded) > 0
    /\ JSONParse(localStorage) = tabRecent
    /\ JSONParse(localStorage) # recentDocuments
    /\ Len(localStorage.objs) = 10

IsPrefix(a, b) == Len(a) <= Len(b) /\ SubSeq(b, 1, Len(a)) = a

\* C26: each context transcript is append-only for the lifetime of the page:
\* in every step the transcript before the step is a prefix of the transcript
\* after it.
C26_TranscriptAppendOnly ==
    [][lastOp'.op # "DOMContentLoaded" =>
          \A s \in Scopes : IsPrefix(chatHistory[s], chatHistory'[s])]_vars

\* a second turn has just been appended to a transcript that held the first
C26_Witness ==
    /\ lastOp.op = "chatResponse"
    /\ Len(chatHistory[lastOp.arg.scope]) = 4

\* what C27 requires of the requests outstanding in a state
C27_Scoped ==
    /\ \A i \in 1..Len(chatReqs["doc"]) :
          /\ "document_id" \in DOMAIN chatReqs["doc"][i]
          /\ chatReqs["doc"][i].document_id = documentId
    /\ \A i \in 1..Len(chatReqs["main"]) :
          ~("document_id" \in DOMAIN chatReqs["main"][i])
    /\ \A i \in 1..Len(docReqs) : docReqs[i].document = documentId.id
    /\ (documentId = Null \/ documentId = [id |-> ""])
          => (chatReqs["doc"] = <<>> /\ docReqs = <<>>)

\* C27: every /chat request of the document-scoped controller carries the
\* document id read from the URL at load, which never changes; no /chat
\* request of the global controller carries a document_id; without an id in
\* the URL the document-scoped controller issues no /chat and no /document
\* request.
C27_DocumentIdAttached ==
    [][documentId' = documentId /\ C27_Scoped /\ C27_Scoped']_vars

\* both controllers have a /chat request outstanding
C27_Witness ==
    /\ Len(chatReqs["doc"]) = 1
    /\ Len(chatReqs["main"]) = 1
    /\ documentId = [id |-> "DOC-1"]

\* the detail page was opened without an id and the main page is in use
C27_WitnessNoId ==
    /\ documentId = Null
    /\ Len(chatReqs["main"]) = 1

\* C28: for every accepted chat send, the user message is in the rendered
\* view and the scope's input is disabled when the /chat request is issued,
\* and the assistant turn (response or apology) is appended to the view only
\* by the step in which that request completes.
C28_EchoBeforeRequestReplyAfter ==
    [][\A s \in Scopes :
         /\ Len(chatReqs'[s]) > Len(chatReqs[s])
              => /\ chatView'[s] =
                      Append(chatView[s], Bubble("user", Last(chatReqs'[s]).query))
                 /\ chatInputDisabled'[s]
                 /\ chatBtnDisabled'[s]
         /\ (Len(chatView'[s]) > Len(chatView[s])
              /\ Last(chatView'[s]).role = "assistant")
              => /\ Len(chatReqs'[s]) < Len(chatReqs[s])
                 /\ Len(chatView'[s]) = Len(chatView[s]) + 1
         /\ Len(chatReqs'[s]) > 0 => Last(chatView'[s]).role = "user"]_vars

\* the apology has just been appended after the user message of a failed turn
C28_Witness ==
    /\ lastOp.op = "chatResponse"
    /\ lastOp.arg.outcome.kind = "non2xx"
    /\ Len(chatView[lastOp.arg.scope]) >= 2
    /\ Last(chatView[lastOp.arg.scope]) = Bubble("assistant", Apology)
    /\ chatView[lastOp.arg.scope][Len(chatView[lastOp.arg.scope]) - 1].role = "user"

\* a step in which the response of an upload the server processed arrives
\* and handleUpload reaches saveToRecent
RecordOnSuccess ==
    /\ lastOp'.op = "uploadResponse"
    /\ lastOp'.arg.kind = "ok"
    /\ toasts' # <<>>
    /\ Last(toasts').type = "success"

\* what C29 allows a step to do to the sequence and to the item
C29_Step ==
    /\ (recentDocuments' # recentDocuments \/ localStorage' # localStorage)
         => /\ RecordOnSuccess
            /\ recentDocuments' =
                 JsArray(SaveToRecent(recentDocuments.array, lastOp'.arg.result, clock'))
            /\ localStorage' = JSONStringify(recentDocuments'.array)
    /\ lastOp'.op \in {"handleFile", "handleUpload", "searchClick", "searchEnter",
                       "searchResponse", "chatClick", "chatEnter", "chatResponse",
                       "categoriesResponse", "resetUploadArea"}
         => (recentDocuments' = recentDocuments /\ localStorage' = localStorage)
    /\ (lastOp'.op = "uploadResponse" /\ lastOp'.arg.kind # "ok")
         => (recentDocuments' = recentDocuments /\ localStorage' = localStorage)

\* C29: the recent-document sequence, in memory and in localStorage, is
\* changed only by the record of a successful upload: file staging, validation
\* rejection, a failed upload, search, chat turns, category refresh and the
\* delayed reset of the upload area all leave both unchanged.
C29_OnlyRecordChangesRecent == [][C29_Step]_vars

\* a record has been written and a later chat turn has left it in place
C29_Witness ==
    /\ lastOp.op = "chatResponse"
    /\ recorded # <<>>
    /\ IsArray(recentDocuments)
    /\ recentDocuments.array # <<>>
    /\ localStorage = JSONStringify(recentDocuments.array)
    /\ searchView # NoSearch

\* a step in which handleFile rejects the file it is given
Rejection ==
    /\ lastOp'.op = "handleFile"
    /\ ~C10_Accepts(lastOp'.arg)

\* C30: a validation rejection has no effect on the upload state: the staged
\* file, the enabled state of the submit button and the outstanding requests
\* are unchanged, as is everything else on the page, and exactly one error
\* notification is produced.
C30_RejectionOnlyNotifies ==
    [][Rejection =>
         /\ currentFile' = currentFile
         /\ uploadBtnDisabled' = uploadBtnDisabled
         /\ uploadReqs' = uploadReqs
         /\ resetTimers' = resetTimers
         /\ UNCHANGED <<build, recentVars, chatVars, documentId, resultsView,
                        catVars, searchVars>>
         /\ Len(toasts') = 1
         /\ toasts'[1].type = "error"]_vars

\* a file was just rejected while another is staged with the button enabled,
\* a request is outstanding and a reset is pending
C30_Witness ==
    /\ lastOp.op = "handleFile"
    /\ ~C10_Accepts(lastOp.arg)
    /\ currentFile # Null
    /\ ~uploadBtnDisabled
    /\ Len(uploadReqs) > 0
    /\ resetTimers > 0
    /\ toasts = <<Toast("Invalid file type", "error")>>

\* C32: in every reachable state the submit button is enabled exactly when a
\* file is staged and no /process-document request is outstanding.
C32_ButtonIffStagedAndQuiet ==
    ~uploadBtnDisabled <=> (currentFile # Null /\ uploadReqs = <<>>)

\* the three parts of C32
C32_NeverEnabledUnstaged == ~uploadBtnDisabled => currentFile # Null

C32_NeverEnabledDuringRequest == ~uploadBtnDisabled => uploadReqs = <<>>

C32_NeverDisabledWhenReady ==
    (currentFile # Null /\ uploadReqs = <<>>) => ~uploadBtnDisabled

\* the reset scheduled by the upload of the first file is pending and the
\* user has since staged the second file
C33_StagedAfterSuccess ==
    /\ Len(recorded) = 1
    /\ resetTimers > 0
    /\ currentFile = SecondFile
    /\ ~uploadBtnDisabled

\* C33: the delayed reset scheduled by a successful upload clears only the
\* file that upload submitted: a different file staged between the success
\* and the firing of the timer is still staged, with the submit button
\* enabled, after the timer has fired.
C33_ResetSparesNewFile ==
    [][(C33_StagedAfterSuccess /\ lastOp'.op = "resetUploadArea")
         => (currentFile' = SecondFile /\ ~uploadBtnDisabled')]_vars

\* C34: once every outstanding search request has completed, the results
\* area shows the outcome of the most recently issued search, whatever the
\* order in which the responses arrived.
C34_LatestSearchShown ==
    (searchReqs = <<>> /\ searchView # NoSearch) => searchView.latest

\* C35: once every outstanding category load has completed, the category
\* view shows the response of the most recently issued load; a stale earlier
\* response never overwrites a later one.
C35_LatestCategoriesShown ==
    (catReqs = <<>> /\ categoriesView # NoCategories) => categoriesView.latest

\* roles alternate user, assistant, ... from the first message on
Alternates(history) ==
    \A i \in 1..Len(history) :
        history[i].role = IF i % 2 = 1 THEN "user" ELSE "assistant"

RECURSIVE IsSubsequence(_, _)
IsSubsequence(t, v) ==
    IF t = <<>> THEN TRUE
    ELSE IF v = <<>> THEN FALSE
    ELSE IF IsStr(Head(t).content)
            /\ Head(v) = Bubble(Head(t).role, Head(t).content.str)
      THEN IsSubsequence(Tail(t), Tail(v))
      ELSE IsSubsequence(t, Tail(v))

\* C37: in every reachable state and in both scopes the context transcript is
\* an order-preserving subsequence of the rendered view: every message of the
\* transcript was appended to the view with the same role and content.
C37_TranscriptWithinView ==
    \A s \in Scopes : IsSubsequence(chatHistory[s], chatView[s])

\* what C37 says of the view: a send appends one user bubble, a completed
\* request one assistant bubble, and nothing else touches the view
C37_ViewStep ==
    \A s \in Scopes :
        IF Len(chatReqs'[s]) > Len(chatReqs[s])
          THEN /\ Len(chatView'[s]) = Len(chatView[s]) + 1
               /\ Last(chatView'[s]).role = "user"
        ELSE IF Len(chatReqs'[s]) < Len(chatReqs[s])
          THEN /\ Len(chatView'[s]) = Len(chatView[s]) + 1
               /\ SubSeq(chatView'[s], 1, Len(chatView[s])) = chatView[s]
               /\ Last(chatView'[s]).role = "assistant"
        ELSE chatView'[s] = chatView[s]

C37_OneBubblePerMessage == [][C37_ViewStep]_vars

\* the same property of the main scope alone
C37_MainTranscriptWithinView == IsSubsequence(chatHistory["main"], chatView["main"])

\* the variables each controller of the main page owns
uploadOwn ==
    <<currentFile, uploadBtnDisabled, uploadReqs, resetTimers, recentDocuments,
      localStorage, recorded, clock, resultsView, catReqs, categoriesView>>

chatOwn == <<chatHistory, chatView, chatBtnDisabled, chatInputDisabled, chatReqs>>

searchOwn == <<searchReqs, searchView>>

\* a step of the upload controller, of the assistant or of the search
\* controller as each takes it when it runs alone
UploadAlone ==
    CASE lastOp'.op = "handleFile" -> SelectFile
      [] lastOp'.op = "handleUpload" -> ClickUpload
      [] lastOp'.op = "uploadResponse" -> ResponseArrives
      [] lastOp'.op = "categoriesResponse" -> CategoriesArrive
      [] lastOp'.op = "resetUploadArea" -> TimerFires
      [] OTHER -> FALSE

ChatAlone ==
    CASE lastOp'.op = "chatClick" -> LiveClickSend
      [] lastOp'.op = "chatResponse" -> ChatResponseArrives
      [] OTHER -> FALSE

SearchAlone ==
    CASE lastOp'.op = "searchClick" -> ClickSearch
      [] lastOp'.op = "searchResponse" -> SearchResponseArrives
      [] OTHER -> FALSE

\* no controller is held back by the requests of another: whether an upload,
\* a message or a search can be started depends on its own controller only
C31_NotGated ==
    /\ ENABLED SelectFile
    /\ ~uploadBtnDisabled /\ Len(uploadReqs) < MaxInFlight => ENABLED ClickUpload
    /\ (ChatListening("main") /\ ~chatBtnDisabled["main"]
          /\ Len(chatView["main"]) + Len(chatView["doc"]) < 2 * MaxTurns)
         => ENABLED ChatClick("main", <<"o">>)
    /\ Len(searchReqs) < MaxSearches => ENABLED SearchClick(<<"k">>)

C31_WitnessCompleted ==
    /\ lastOp.op = "uploadResponse"
    /\ uploadReqs = <<>>
    /\ recorded # <<>>
    /\ chatReqs["main"] = <<>>
    /\ Len(chatHistory["main"]) = 2
    /\ searchReqs = <<>>
    /\ searchView.content = "results"

====
